---- MODULE Spec2Model ----
(***************************************************************************)
(* Venus video codec power-management helpers (pm_helpers.c).             *)
(*                                                                         *)
(* The model keeps the state the helpers act on: the handles stored in     *)
(* struct venus_core, the enable count of every clock, the usage count of  *)
(* the per-core power domains, the attached domains, the device link and   *)
(* the wrapper power-control registers.  Every handler is one action; the  *)
(* calls it makes on the kernel services are recorded, in order, in `log`  *)
(* (the log of the last call only).  A kernel service that can fail either *)
(* succeeds or fails, whenever it is called.                               *)
(***************************************************************************)
EXTENDS Integers, Sequences, FiniteSets, TLC

\* ---------------------------------------------------------------- bounds
MaxClks    == 3   \* largest res->clks_num explored
MaxCalls   == 3   \* power calls made on one device
MaxVersion == 4   \* hfi_version identifiers 0..MaxVersion are explored
MaxLate    == 1   \* reads past the poll limit after which a status bit may still settle

\* ------------------------------------------------------ program constants
POWER_ON  == 1
POWER_OFF == 0
HFI_VERSION_1XX == 0
HFI_VERSION_3XX == 1
HFI_VERSION_4XX == 2
VIDC_CORE_ID_1 == 1
VIDC_CORE_ID_2 == 2
VIDC_SESSION_TYPE_ENC == 1
VIDC_SESSION_TYPE_DEC == 2
ENODEV    == 19
ETIMEDOUT == 110
POLL_SLEEP_US   == 1     \* sleep_us of readl_poll_timeout
POLL_TIMEOUT_US == 100   \* timeout_us of readl_poll_timeout

VARIABLES
    version,       \* identifier handed to venus_get_pm_ops
    ops,           \* the struct venus_pm_ops selected for the device
    clks_num,      \* res->clks_num
    core,          \* handles held in struct venus_core
    enable_count,  \* clock name -> prepare/enable count
    usage_count,   \* power domain -> runtime-PM usage count
    active,        \* power domain -> its runtime-PM status is active
    attached,      \* power domains attached to the device
    link,          \* TRUE while a device link to the venus domain exists
    reg,           \* wrapper register -> bit last written / status bit
    life,          \* "core"/"vdec"/"venc" -> result of its get_pm call
    ncalls,        \* number of power calls made so far
    call,          \* name of the last handler called
    arg,           \* its `on` argument (POWER_OFF when it has none)
    ret,           \* its return value (0 for a void handler)
    log,           \* kernel-service calls made by the last handler, in order
    reads,         \* status reads made by each readl_poll_timeout of the last handler
    settle,        \* status sources the last handler could meet (reads until the bit settles)
    cutshort,      \* TRUE once a power(off) returned before releasing both per-core domains
    pre            \* enable_count, usage_count, reg, link before the last call

vars == <<version, ops, clks_num, core, enable_count, usage_count, active, attached,
          link, reg, life, ncalls, call, arg, ret, log, reads, settle, cutshort, pre>>

\* --------------------------------------------------------------- handles
NULL       == [ptr |-> "NULL", err |-> 0]
ERR_PTR(e) == [ptr |-> "ERR", err |-> e]
Ptr(name)  == [ptr |-> name, err |-> 0]
IS_ERR(h)  == h.ptr = "ERR"
PTR_ERR(h) == h.err
IS_ERR_OR_NULL(h) == h.ptr = "ERR" \/ h.ptr = "NULL"

\* ------------------------------------------------------ names of resources
res_clks(i)      == "clk" \o ToString(i)           \* res->clks[i]
ClkName(dev, id) == dev \o "." \o id                \* clock `id` of device `dev`
SharedClk(i)     == ClkName("venus", res_clks(i))
SharedClks       == {SharedClk(i) : i \in 0..(MaxClks - 1)}
SessionClks      == {ClkName("vdec", "core"), ClkName("venc", "core")}
Core0Clks        == {ClkName("venus", "vcodec0_core"), ClkName("venus", "vcodec0_bus")}
Core1Clks        == {ClkName("venus", "vcodec1_core"), ClkName("venus", "vcodec1_bus")}
ClockNames       == SharedClks \cup SessionClks \cup Core0Clks \cup Core1Clks
PdNames          == {"venus", "vcodec0", "vcodec1"}

WRAPPER_VDEC_VCODEC_POWER_CONTROL  == "WRAPPER_VDEC_VCODEC_POWER_CONTROL"
WRAPPER_VENC_VCODEC_POWER_CONTROL  == "WRAPPER_VENC_VCODEC_POWER_CONTROL"
WRAPPER_VCODEC0_MMCC_POWER_CONTROL == "WRAPPER_VCODEC0_MMCC_POWER_CONTROL"
WRAPPER_VCODEC0_MMCC_POWER_STATUS  == "WRAPPER_VCODEC0_MMCC_POWER_STATUS"
WRAPPER_VCODEC1_MMCC_POWER_CONTROL == "WRAPPER_VCODEC1_MMCC_POWER_CONTROL"
WRAPPER_VCODEC1_MMCC_POWER_STATUS  == "WRAPPER_VCODEC1_MMCC_POWER_STATUS"
Regs == {WRAPPER_VDEC_VCODEC_POWER_CONTROL, WRAPPER_VENC_VCODEC_POWER_CONTROL,
         WRAPPER_VCODEC0_MMCC_POWER_CONTROL, WRAPPER_VCODEC0_MMCC_POWER_STATUS,
         WRAPPER_VCODEC1_MMCC_POWER_CONTROL, WRAPPER_VCODEC1_MMCC_POWER_STATUS}

\* ---------------------------------------------------- kernel services
\* A machine `m` is the state threaded through one handler call: the
\* program state, the log and the number `seq` of fallible service calls
\* made so far.  A statement that can end in more than one way yields the
\* set of its outcomes: Then(V, K) runs K after every outcome in V, and
\* Let(v, K) runs K after a statement with the single outcome v.
Then(V, K(_)) == UNION {K(x) : x \in V}
Let(v, K(_))  == CHOOSE r \in {K(x) : x \in {v}} : TRUE

Ev(op, res, val) == [op |-> op, res |-> res, val |-> val]
Logged(m, op, res, val) == [m EXCEPT !.log = Append(@, Ev(op, res, val))]
Tick(m)   == [m EXCEPT !.seq = @ + 1]
InjErr(m) == -(m.seq + 1)        \* the errno of a failure of the next call
Dec(c)    == IF c > 0 THEN c - 1 ELSE 0
UninitInts == {-1, 0}            \* values an unassigned `int ret` may hold

devm_clk_get(m, dev, id) ==
    { [m |-> Tick(Logged(m, "devm_clk_get", ClkName(dev, id), 0)),
       h |-> Ptr(ClkName(dev, id))],
      [m |-> Tick(Logged(m, "devm_clk_get", ClkName(dev, id), InjErr(m))),
       h |-> ERR_PTR(InjErr(m))] }

clk_prepare_enable(m, h) ==
    IF h = NULL THEN {[m |-> m, ret |-> 0]}
    ELSE { [m |-> Tick(Logged([m EXCEPT !.enable_count[h.ptr] = @ + 1],
                              "clk_prepare_enable", h.ptr, 0)),
            ret |-> 0],
           [m |-> Tick(Logged(m, "clk_prepare_enable", h.ptr, InjErr(m))),
            ret |-> InjErr(m)] }

\* a disable of a clock that is not enabled only warns
clk_disable_unprepare(m, h) ==
    IF h = NULL THEN m
    ELSE Logged([m EXCEPT !.enable_count[h.ptr] = Dec(@)],
                "clk_disable_unprepare", h.ptr, 0)

\* The usage count is raised whether or not the resume succeeds; a
\* successful call yields 1 when the domain was already active.
pm_runtime_get_sync(m, h) ==
    { [m |-> Tick(Logged([m EXCEPT !.usage_count[h.ptr] = @ + 1,
                                   !.active[h.ptr] = TRUE],
                         "pm_runtime_get_sync", h.ptr,
                         IF m.active[h.ptr] THEN 1 ELSE 0)),
       ret |-> IF m.active[h.ptr] THEN 1 ELSE 0],
      [m |-> Tick(Logged([m EXCEPT !.usage_count[h.ptr] = @ + 1],
                         "pm_runtime_get_sync", h.ptr, InjErr(m))),
       ret |-> InjErr(m)] }

\* The usage count is dropped; the domain is suspended when the count
\* reaches zero and the suspend succeeds.
pm_runtime_put_sync(m, h) ==
    { [m |-> Tick(Logged([m EXCEPT !.usage_count[h.ptr] = Dec(@),
                                   !.active[h.ptr] = @ /\ m.usage_count[h.ptr] > 1],
                         "pm_runtime_put_sync", h.ptr, 0)),
       ret |-> 0],
      [m |-> Tick(Logged([m EXCEPT !.usage_count[h.ptr] = Dec(@)],
                         "pm_runtime_put_sync", h.ptr, InjErr(m))),
       ret |-> InjErr(m)] }

writel(m, v, ctrl) ==
    Logged([m EXCEPT !.reg[ctrl] = v], "writel", ctrl, v)

\* A status source is the number of the read at which BIT(1) of the status
\* register first shows the requested value; NeverSettles is a source that
\* never changes.
NeverSettles == 0
\* sources met by the power handlers: settled at the first read, or never
PowerSettles == {1, NeverSettles}
\* sources met by a handshake on its own
AllSettles == 0..(POLL_TIMEOUT_US \div POLL_SLEEP_US + MaxLate)

\* The poll loop reads the status every sleep_us until the bit shows the
\* requested value or timeout_us have gone by: timeout_us / sleep_us reads
\* at most.  Yields the number of reads made and the result.
poll_reads(src, sleep_us, timeout_us) ==
    IF src \in 1..(timeout_us \div sleep_us)
    THEN [n |-> src, ret |-> 0]
    ELSE [n |-> timeout_us \div sleep_us, ret |-> -ETIMEDOUT]

\* polls BIT(1) of `stat` until it equals `want` or the time is up
readl_poll_timeout(m, stat, want, sleep_us, timeout_us) ==
    { Let(poll_reads(src, sleep_us, timeout_us), LAMBDA p :
          [m |-> Tick(Logged([m EXCEPT !.reg[stat] = IF p.ret = 0 THEN want ELSE 1 - want,
                                       !.reads = Append(@, p.n)],
                             "readl_poll_timeout", stat, p.ret)),
           ret |-> p.ret]) : src \in m.settle }

dev_pm_domain_attach_by_name(m, name) ==
    { [m |-> Tick(Logged([m EXCEPT !.attached = @ \cup {name}],
                         "dev_pm_domain_attach_by_name", name, 0)),
       h |-> Ptr(name)],
      [m |-> Tick(Logged(m, "dev_pm_domain_attach_by_name", name, InjErr(m))),
       h |-> ERR_PTR(InjErr(m))] }

dev_pm_domain_detach(m, h) ==
    Logged([m EXCEPT !.attached = @ \ {h.ptr}], "dev_pm_domain_detach", h.ptr, 0)

\* yields NULL when the link cannot be created
device_link_add(m, supplier) ==
    { [m |-> Tick(Logged([m EXCEPT !.link = TRUE],
                         "device_link_add", supplier.ptr, 1)),
       h |-> Ptr("link")],
      [m |-> Tick(Logged(m, "device_link_add", supplier.ptr, 0)),
       h |-> NULL] }

device_link_del(m, h) ==
    Logged([m EXCEPT !.link = FALSE], "device_link_del", h.ptr, 0)

\* ------------------------------------------------------ Clock Set Manager
core_clks_get(m) ==
    LET RECURSIVE get(_, _)
        get(mm, i) ==
            IF i >= mm.clks_num THEN {[m |-> mm, ret |-> 0]}
            ELSE Then(devm_clk_get(mm, "venus", res_clks(i)), LAMBDA r :
                 Then({[r.m EXCEPT !.core.clks[i] = r.h]}, LAMBDA m1 :
                      IF IS_ERR(m1.core.clks[i])
                      THEN {[m |-> m1, ret |-> PTR_ERR(m1.core.clks[i])]}
                      ELSE get(m1, i + 1)))
    IN  get(m, 0)

\* variant: the unwind loop also disables the clock whose enable failed
core_clks_enable_unwind_failed(m) ==
    LET RECURSIVE unwind(_, _)
        unwind(mm, i) ==
            IF i = 0 THEN mm
            ELSE Let(clk_disable_unprepare(mm, mm.core.clks[i - 1]), LAMBDA m1 :
                     unwind(m1, i - 1))
        RECURSIVE enable(_, _)
        enable(mm, i) ==
            IF i >= mm.clks_num THEN {[m |-> mm, ret |-> 0]}
            ELSE Then(clk_prepare_enable(mm, mm.core.clks[i]), LAMBDA r :
                      IF r.ret # 0
                      THEN {[m |-> unwind(r.m, i + 1), ret |-> r.ret]}
                      ELSE enable(r.m, i + 1))
    IN  enable(m, 0)

core_clks_enable(m) ==
    LET RECURSIVE unwind(_, _)
        unwind(mm, i) ==                              \* while (i--)
            IF i = 0 THEN mm
            ELSE Let(clk_disable_unprepare(mm, mm.core.clks[i - 1]), LAMBDA m1 :
                     unwind(m1, i - 1))
        RECURSIVE enable(_, _)
        enable(mm, i) ==
            IF i >= mm.clks_num THEN {[m |-> mm, ret |-> 0]}
            ELSE Then(clk_prepare_enable(mm, mm.core.clks[i]), LAMBDA r :
                      IF r.ret # 0
                      THEN {[m |-> unwind(r.m, i), ret |-> r.ret]}
                      ELSE enable(r.m, i + 1))
    IN  enable(m, 0)

\* variant: the clocks are disabled from index 0 upwards
core_clks_disable_ascending(m) ==
    LET RECURSIVE disable(_, _)
        disable(mm, i) ==
            IF i >= mm.clks_num THEN mm
            ELSE Let(clk_disable_unprepare(mm, mm.core.clks[i]), LAMBDA m1 :
                     disable(m1, i + 1))
    IN  disable(m, 0)

\* variant: the loop stops before index 0 (while (--i))
core_clks_disable_skips_first(m) ==
    LET RECURSIVE disable(_, _)
        disable(mm, i) ==
            IF i <= 1 THEN mm
            ELSE Let(clk_disable_unprepare(mm, mm.core.clks[i - 1]), LAMBDA m1 :
                     disable(m1, i - 1))
    IN  disable(m, m.clks_num)

core_clks_disable(m) ==
    LET RECURSIVE disable(_, _)
        disable(mm, i) ==                             \* while (i--)
            IF i = 0 THEN mm
            ELSE Let(clk_disable_unprepare(mm, mm.core.clks[i - 1]), LAMBDA m1 :
                     disable(m1, i - 1))
    IN  disable(m, m.clks_num)

\* ------------------------------------------------------------- V1 strategy
core_get_pm_v1(m) == core_clks_get(m)

core_power_v1(m, on) ==
    IF on = POWER_ON
    THEN core_clks_enable(m)
    ELSE {[m |-> core_clks_disable(m), ret |-> 0]}

venus_pm_ops_v1 ==
    [core_get_pm |-> "core_get_pm_v1", core_put_pm |-> "NULL",
     core_power  |-> "core_power_v1",
     vdec_get_pm |-> "NULL", vdec_power |-> "NULL",
     venc_get_pm |-> "NULL", venc_power |-> "NULL"]

\* ------------------------------------------- Register Handshake Primitive
\* variant: the session type is not looked at
vcodec_power_control_v3_one_register(m, session_type, enable) ==
    LET ctrl == WRAPPER_VDEC_VCODEC_POWER_CONTROL
    IN  IF enable THEN writel(m, 0, ctrl) ELSE writel(m, 1, ctrl)

vcodec_power_control_v3(m, session_type, enable) ==
    LET ctrl == IF session_type = VIDC_SESSION_TYPE_DEC
                THEN WRAPPER_VDEC_VCODEC_POWER_CONTROL
                ELSE WRAPPER_VENC_VCODEC_POWER_CONTROL
    IN  IF enable THEN writel(m, 0, ctrl) ELSE writel(m, 1, ctrl)

\* variant: after a timeout the control bit is written and polled once more
vcodec_power_control_v4_retries(m, coreid, enable) ==
    LET ctrl == IF coreid = VIDC_CORE_ID_1
                THEN WRAPPER_VCODEC0_MMCC_POWER_CONTROL
                ELSE WRAPPER_VCODEC1_MMCC_POWER_CONTROL
        stat == IF coreid = VIDC_CORE_ID_1
                THEN WRAPPER_VCODEC0_MMCC_POWER_STATUS
                ELSE WRAPPER_VCODEC1_MMCC_POWER_STATUS
        v    == IF enable THEN 0 ELSE 1
    IN  Then(Let(writel(m, v, ctrl), LAMBDA w :
                 readl_poll_timeout(w, stat, 1 - v, POLL_SLEEP_US, POLL_TIMEOUT_US)),
             LAMBDA r :
                 IF r.ret = 0 THEN {r}
                 ELSE Let(writel(r.m, v, ctrl), LAMBDA w :
                          readl_poll_timeout(w, stat, 1 - v, POLL_SLEEP_US, POLL_TIMEOUT_US)))

\* variant: both branches name the registers of vcodec0
vcodec_power_control_v4_vcodec0_only(m, coreid, enable) ==
    LET ctrl == WRAPPER_VCODEC0_MMCC_POWER_CONTROL
        stat == WRAPPER_VCODEC0_MMCC_POWER_STATUS
    IN  IF enable
        THEN Let(writel(m, 0, ctrl), LAMBDA w :
                 readl_poll_timeout(w, stat, 1, POLL_SLEEP_US, POLL_TIMEOUT_US))
        ELSE Let(writel(m, 1, ctrl), LAMBDA w :
                 readl_poll_timeout(w, stat, 0, POLL_SLEEP_US, POLL_TIMEOUT_US))

vcodec_power_control_v4(m, coreid, enable) ==
    LET ctrl == IF coreid = VIDC_CORE_ID_1
                THEN WRAPPER_VCODEC0_MMCC_POWER_CONTROL
                ELSE WRAPPER_VCODEC1_MMCC_POWER_CONTROL
        stat == IF coreid = VIDC_CORE_ID_1
                THEN WRAPPER_VCODEC0_MMCC_POWER_STATUS
                ELSE WRAPPER_VCODEC1_MMCC_POWER_STATUS
    IN  IF enable
        THEN Let(writel(m, 0, ctrl), LAMBDA w :
                 readl_poll_timeout(w, stat, 1, POLL_SLEEP_US, POLL_TIMEOUT_US))
        ELSE Let(writel(m, 1, ctrl), LAMBDA w :
                 readl_poll_timeout(w, stat, 0, POLL_SLEEP_US, POLL_TIMEOUT_US))

\* ------------------------------------------------------------- V3 strategy
vdec_get_pm_v3(m) ==
    Then(devm_clk_get(m, "vdec", "core"), LAMBDA r :
    Then({[r.m EXCEPT !.core.core0_clk = r.h]}, LAMBDA m1 :
         IF IS_ERR(m1.core.core0_clk)
         THEN {[m |-> m1, ret |-> PTR_ERR(m1.core.core0_clk)]}
         ELSE {[m |-> m1, ret |-> 0]}))

\* variant: a failed clock enable returns before the de-assert write
vdec_power_v3_returns_early(m, on) ==
    IF on = POWER_ON
    THEN Then({vcodec_power_control_v3(m, VIDC_SESSION_TYPE_DEC, TRUE)}, LAMBDA m1 :
         Then(clk_prepare_enable(m1, m1.core.core0_clk), LAMBDA r :
              IF r.ret # 0 THEN {r} ELSE
              {[m |-> vcodec_power_control_v3(r.m, VIDC_SESSION_TYPE_DEC, FALSE),
                ret |-> r.ret]}))
    ELSE Then({vcodec_power_control_v3(m, VIDC_SESSION_TYPE_DEC, TRUE)}, LAMBDA m1 :
         Then({clk_disable_unprepare(m1, m1.core.core0_clk)}, LAMBDA m2 :
              {[m |-> vcodec_power_control_v3(m2, VIDC_SESSION_TYPE_DEC, FALSE),
                ret |-> 0]}))

vdec_power_v3(m, on) ==
    IF on = POWER_ON
    THEN Then({vcodec_power_control_v3(m, VIDC_SESSION_TYPE_DEC, TRUE)}, LAMBDA m1 :
         Then(clk_prepare_enable(m1, m1.core.core0_clk), LAMBDA r :
              {[m |-> vcodec_power_control_v3(r.m, VIDC_SESSION_TYPE_DEC, FALSE),
                ret |-> r.ret]}))
    ELSE Then({vcodec_power_control_v3(m, VIDC_SESSION_TYPE_DEC, TRUE)}, LAMBDA m1 :
         Then({clk_disable_unprepare(m1, m1.core.core0_clk)}, LAMBDA m2 :
              {[m |-> vcodec_power_control_v3(m2, VIDC_SESSION_TYPE_DEC, FALSE),
                ret |-> 0]}))

venc_get_pm_v3(m) ==
    Then(devm_clk_get(m, "venc", "core"), LAMBDA r :
    Then({[r.m EXCEPT !.core.core1_clk = r.h]}, LAMBDA m1 :
         IF IS_ERR(m1.core.core1_clk)
         THEN {[m |-> m1, ret |-> PTR_ERR(m1.core.core1_clk)]}
         ELSE {[m |-> m1, ret |-> 0]}))

venc_power_v3(m, on) ==
    IF on = POWER_ON
    THEN Then({vcodec_power_control_v3(m, VIDC_SESSION_TYPE_ENC, TRUE)}, LAMBDA m1 :
         Then(clk_prepare_enable(m1, m1.core.core1_clk), LAMBDA r :
              {[m |-> vcodec_power_control_v3(r.m, VIDC_SESSION_TYPE_ENC, FALSE),
                ret |-> r.ret]}))
    ELSE Then({vcodec_power_control_v3(m, VIDC_SESSION_TYPE_ENC, TRUE)}, LAMBDA m1 :
         Then({clk_disable_unprepare(m1, m1.core.core1_clk)}, LAMBDA m2 :
              {[m |-> vcodec_power_control_v3(m2, VIDC_SESSION_TYPE_ENC, FALSE),
                ret |-> 0]}))

venus_pm_ops_v3 ==
    [core_get_pm |-> "core_get_pm_v1", core_put_pm |-> "NULL",
     core_power  |-> "core_power_v1",
     vdec_get_pm |-> "vdec_get_pm_v3", vdec_power |-> "vdec_power_v3",
     venc_get_pm |-> "venc_get_pm_v3", venc_power |-> "venc_power_v3"]

\* ------------------------------------------------ Per-Core Power Sequencer
HasCore(coreid_mask, coreid) == (coreid_mask \div coreid) % 2 = 1   \* mask & id

\* A block of a sequencer yields the machine, the value of `ret` and whether
\* the function has returned.
Step(m, r, returned) == [m |-> m, ret |-> r, returned |-> returned]

\* variant: a timeout of the de-assert handshake of CORE_2 returns at once
poweroff_by_core_id_deassert_fatal(m, coreid_mask) ==
    Then(IF ~HasCore(coreid_mask, VIDC_CORE_ID_1)
         THEN {Step(m, u, FALSE) : u \in UninitInts}   \* int ret;
         ELSE Then(vcodec_power_control_v4(m, VIDC_CORE_ID_1, TRUE), LAMBDA a :
              IF a.ret # 0 THEN {Step(a.m, a.ret, TRUE)} ELSE
              Then({clk_disable_unprepare(a.m, a.m.core.core0_bus_clk)}, LAMBDA m1 :
              Then({clk_disable_unprepare(m1, m1.core.core0_clk)}, LAMBDA m2 :
              Then(vcodec_power_control_v4(m2, VIDC_CORE_ID_1, FALSE), LAMBDA b :
              Then(pm_runtime_put_sync(b.m, b.m.core.pd_core0), LAMBDA c :
              IF c.ret < 0 THEN {Step(c.m, c.ret, TRUE)}
              ELSE {Step(c.m, c.ret, FALSE)}))))),
    LAMBDA c1 :
    Then(IF c1.returned \/ ~HasCore(coreid_mask, VIDC_CORE_ID_2)
         THEN {c1}
         ELSE Then(vcodec_power_control_v4(c1.m, VIDC_CORE_ID_2, TRUE), LAMBDA a :
              IF a.ret # 0 THEN {Step(a.m, a.ret, TRUE)} ELSE
              Then({clk_disable_unprepare(a.m, a.m.core.core1_bus_clk)}, LAMBDA m1 :
              Then({clk_disable_unprepare(m1, m1.core.core1_clk)}, LAMBDA m2 :
              Then(vcodec_power_control_v4(m2, VIDC_CORE_ID_2, FALSE), LAMBDA b :
              IF b.ret # 0 THEN {Step(b.m, b.ret, TRUE)} ELSE
              Then(pm_runtime_put_sync(b.m, b.m.core.pd_core1), LAMBDA c :
              {Step(c.m, c.ret, FALSE)}))))),
    LAMBDA c2 : {[m |-> c2.m, ret |-> c2.ret]}))

\* variant: a failed domain release of CORE_1 does not return
poweroff_by_core_id_release_not_fatal(m, coreid_mask) ==
    Then(IF ~HasCore(coreid_mask, VIDC_CORE_ID_1)
         THEN {Step(m, u, FALSE) : u \in UninitInts}   \* int ret;
         ELSE Then(vcodec_power_control_v4(m, VIDC_CORE_ID_1, TRUE), LAMBDA a :
              IF a.ret # 0 THEN {Step(a.m, a.ret, TRUE)} ELSE
              Then({clk_disable_unprepare(a.m, a.m.core.core0_bus_clk)}, LAMBDA m1 :
              Then({clk_disable_unprepare(m1, m1.core.core0_clk)}, LAMBDA m2 :
              Then(vcodec_power_control_v4(m2, VIDC_CORE_ID_1, FALSE), LAMBDA b :
              Then(pm_runtime_put_sync(b.m, b.m.core.pd_core0), LAMBDA c :
              {Step(c.m, c.ret, FALSE)}))))),
    LAMBDA c1 :
    Then(IF c1.returned \/ ~HasCore(coreid_mask, VIDC_CORE_ID_2)
         THEN {c1}
         ELSE Then(vcodec_power_control_v4(c1.m, VIDC_CORE_ID_2, TRUE), LAMBDA a :
              IF a.ret # 0 THEN {Step(a.m, a.ret, TRUE)} ELSE
              Then({clk_disable_unprepare(a.m, a.m.core.core1_bus_clk)}, LAMBDA m1 :
              Then({clk_disable_unprepare(m1, m1.core.core1_clk)}, LAMBDA m2 :
              Then(vcodec_power_control_v4(m2, VIDC_CORE_ID_2, FALSE), LAMBDA b :
              Then(pm_runtime_put_sync(b.m, b.m.core.pd_core1), LAMBDA c :
              {Step(c.m, c.ret, FALSE)}))))),
    LAMBDA c2 : {[m |-> c2.m, ret |-> c2.ret]}))

poweroff_by_core_id(m, coreid_mask) ==
    Then(IF ~HasCore(coreid_mask, VIDC_CORE_ID_1)
         THEN {Step(m, u, FALSE) : u \in UninitInts}   \* int ret;
         ELSE Then(vcodec_power_control_v4(m, VIDC_CORE_ID_1, TRUE), LAMBDA a :
              IF a.ret # 0 THEN {Step(a.m, a.ret, TRUE)} ELSE
              Then({clk_disable_unprepare(a.m, a.m.core.core0_bus_clk)}, LAMBDA m1 :
              Then({clk_disable_unprepare(m1, m1.core.core0_clk)}, LAMBDA m2 :
              Then(vcodec_power_control_v4(m2, VIDC_CORE_ID_1, FALSE), LAMBDA b :
              Then(pm_runtime_put_sync(b.m, b.m.core.pd_core0), LAMBDA c :
              IF c.ret < 0 THEN {Step(c.m, c.ret, TRUE)}
              ELSE {Step(c.m, c.ret, FALSE)}))))),
    LAMBDA c1 :
    Then(IF c1.returned \/ ~HasCore(coreid_mask, VIDC_CORE_ID_2)
         THEN {c1}
         ELSE Then(vcodec_power_control_v4(c1.m, VIDC_CORE_ID_2, TRUE), LAMBDA a :
              IF a.ret # 0 THEN {Step(a.m, a.ret, TRUE)} ELSE
              Then({clk_disable_unprepare(a.m, a.m.core.core1_bus_clk)}, LAMBDA m1 :
              Then({clk_disable_unprepare(m1, m1.core.core1_clk)}, LAMBDA m2 :
              Then(vcodec_power_control_v4(m2, VIDC_CORE_ID_2, FALSE), LAMBDA b :
              Then(pm_runtime_put_sync(b.m, b.m.core.pd_core1), LAMBDA c :
              {Step(c.m, c.ret, FALSE)}))))),
    LAMBDA c2 : {[m |-> c2.m, ret |-> c2.ret]}))

\* variant: any non-zero result of the domain acquire is returned
poweron_by_core_id_acquire_nonzero(m, coreid_mask) ==
    Then(IF ~HasCore(coreid_mask, VIDC_CORE_ID_1)
         THEN {Step(m, u, FALSE) : u \in UninitInts}
         ELSE Then(pm_runtime_get_sync(m, m.core.pd_core0), LAMBDA a :
              IF a.ret # 0 THEN {Step(a.m, a.ret, TRUE)} ELSE
              Then(vcodec_power_control_v4(a.m, VIDC_CORE_ID_1, TRUE), LAMBDA b :
              IF b.ret # 0 THEN {Step(b.m, b.ret, TRUE)} ELSE
              Then(clk_prepare_enable(b.m, b.m.core.core0_clk), LAMBDA c :
              IF c.ret # 0 THEN {Step(c.m, c.ret, TRUE)} ELSE
              Then(clk_prepare_enable(c.m, c.m.core.core0_bus_clk), LAMBDA d :
              IF d.ret # 0 THEN {Step(d.m, d.ret, TRUE)} ELSE
              Then(vcodec_power_control_v4(d.m, VIDC_CORE_ID_1, FALSE), LAMBDA e :
              IF e.ret < 0 THEN {Step(e.m, e.ret, TRUE)}
              ELSE {Step(e.m, e.ret, FALSE)}))))),
    LAMBDA c1 :
    Then(IF c1.returned \/ ~HasCore(coreid_mask, VIDC_CORE_ID_2)
         THEN {c1}
         ELSE Then(pm_runtime_get_sync(c1.m, c1.m.core.pd_core1), LAMBDA a :
              IF a.ret # 0 THEN {Step(a.m, a.ret, TRUE)} ELSE
              Then(vcodec_power_control_v4(a.m, VIDC_CORE_ID_2, TRUE), LAMBDA b :
              IF b.ret # 0 THEN {Step(b.m, b.ret, TRUE)} ELSE
              Then(clk_prepare_enable(b.m, b.m.core.core1_clk), LAMBDA c :
              IF c.ret # 0 THEN {Step(c.m, c.ret, TRUE)} ELSE
              Then(clk_prepare_enable(c.m, c.m.core.core1_bus_clk), LAMBDA d :
              IF d.ret # 0 THEN {Step(d.m, d.ret, TRUE)} ELSE
              Then(vcodec_power_control_v4(d.m, VIDC_CORE_ID_2, FALSE), LAMBDA e :
              {Step(e.m, e.ret, FALSE)}))))),
    LAMBDA c2 : {[m |-> c2.m, ret |-> c2.ret]}))

\* variant: the result of enabling the core clock of CORE_2 is not tested
poweron_by_core_id_core1_clk_untested(m, coreid_mask) ==
    Then(IF ~HasCore(coreid_mask, VIDC_CORE_ID_1)
         THEN {Step(m, u, FALSE) : u \in UninitInts}   \* int ret;
         ELSE Then(pm_runtime_get_sync(m, m.core.pd_core0), LAMBDA a :
              IF a.ret < 0 THEN {Step(a.m, a.ret, TRUE)} ELSE
              Then(vcodec_power_control_v4(a.m, VIDC_CORE_ID_1, TRUE), LAMBDA b :
              IF b.ret # 0 THEN {Step(b.m, b.ret, TRUE)} ELSE
              Then(clk_prepare_enable(b.m, b.m.core.core0_clk), LAMBDA c :
              IF c.ret # 0 THEN {Step(c.m, c.ret, TRUE)} ELSE
              Then(clk_prepare_enable(c.m, c.m.core.core0_bus_clk), LAMBDA d :
              IF d.ret # 0 THEN {Step(d.m, d.ret, TRUE)} ELSE
              Then(vcodec_power_control_v4(d.m, VIDC_CORE_ID_1, FALSE), LAMBDA e :
              IF e.ret < 0 THEN {Step(e.m, e.ret, TRUE)}
              ELSE {Step(e.m, e.ret, FALSE)}))))),
    LAMBDA c1 :
    Then(IF c1.returned \/ ~HasCore(coreid_mask, VIDC_CORE_ID_2)
         THEN {c1}
         ELSE Then(pm_runtime_get_sync(c1.m, c1.m.core.pd_core1), LAMBDA a :
              IF a.ret < 0 THEN {Step(a.m, a.ret, TRUE)} ELSE
              Then(vcodec_power_control_v4(a.m, VIDC_CORE_ID_2, TRUE), LAMBDA b :
              IF b.ret # 0 THEN {Step(b.m, b.ret, TRUE)} ELSE
              Then(clk_prepare_enable(b.m, b.m.core.core1_clk), LAMBDA c :
              Then(clk_prepare_enable(c.m, c.m.core.core1_bus_clk), LAMBDA d :
              IF d.ret # 0 THEN {Step(d.m, d.ret, TRUE)} ELSE
              Then(vcodec_power_control_v4(d.m, VIDC_CORE_ID_2, FALSE), LAMBDA e :
              {Step(e.m, e.ret, FALSE)}))))),
    LAMBDA c2 : {[m |-> c2.m, ret |-> c2.ret]}))

poweron_by_core_id(m, coreid_mask) ==
    Then(IF ~HasCore(coreid_mask, VIDC_CORE_ID_1)
         THEN {Step(m, u, FALSE) : u \in UninitInts}   \* int ret;
         ELSE Then(pm_runtime_get_sync(m, m.core.pd_core0), LAMBDA a :
              IF a.ret < 0 THEN {Step(a.m, a.ret, TRUE)} ELSE
              Then(vcodec_power_control_v4(a.m, VIDC_CORE_ID_1, TRUE), LAMBDA b :
              IF b.ret # 0 THEN {Step(b.m, b.ret, TRUE)} ELSE
              Then(clk_prepare_enable(b.m, b.m.core.core0_clk), LAMBDA c :
              IF c.ret # 0 THEN {Step(c.m, c.ret, TRUE)} ELSE
              Then(clk_prepare_enable(c.m, c.m.core.core0_bus_clk), LAMBDA d :
              IF d.ret # 0 THEN {Step(d.m, d.ret, TRUE)} ELSE
              Then(vcodec_power_control_v4(d.m, VIDC_CORE_ID_1, FALSE), LAMBDA e :
              IF e.ret < 0 THEN {Step(e.m, e.ret, TRUE)}
              ELSE {Step(e.m, e.ret, FALSE)}))))),
    LAMBDA c1 :
    Then(IF c1.returned \/ ~HasCore(coreid_mask, VIDC_CORE_ID_2)
         THEN {c1}
         ELSE Then(pm_runtime_get_sync(c1.m, c1.m.core.pd_core1), LAMBDA a :
              IF a.ret < 0 THEN {Step(a.m, a.ret, TRUE)} ELSE
              Then(vcodec_power_control_v4(a.m, VIDC_CORE_ID_2, TRUE), LAMBDA b :
              IF b.ret # 0 THEN {Step(b.m, b.ret, TRUE)} ELSE
              Then(clk_prepare_enable(b.m, b.m.core.core1_clk), LAMBDA c :
              IF c.ret # 0 THEN {Step(c.m, c.ret, TRUE)} ELSE
              Then(clk_prepare_enable(c.m, c.m.core.core1_bus_clk), LAMBDA d :
              IF d.ret # 0 THEN {Step(d.m, d.ret, TRUE)} ELSE
              Then(vcodec_power_control_v4(d.m, VIDC_CORE_ID_2, FALSE), LAMBDA e :
              {Step(e.m, e.ret, FALSE)}))))),
    LAMBDA c2 : {[m |-> c2.m, ret |-> c2.ret]}))

\* ------------------------------------------------------------- V4 strategy
\* core-><field> = <lookup>; if (IS_ERR(core-><field>)) return PTR_ERR(...);
\* K is the rest of the function.
Resolve(r, field, K(_)) ==
    Then({[r.m EXCEPT !.core[field] = r.h]}, LAMBDA m1 :
         IF IS_ERR(m1.core[field])
         THEN {[m |-> m1, ret |-> PTR_ERR(m1.core[field])]}
         ELSE K(m1))

\* variant: the handle of the vcodec0 domain is stored and never tested
core_get_pm_v4_core0_domain_untested(m) ==
    Then(core_clks_get(m), LAMBDA g :
    IF g.ret # 0 THEN {g} ELSE
    Then(devm_clk_get(g.m, "venus", "vcodec0_core"), LAMBDA c0 :
    Resolve(c0, "core0_clk", LAMBDA m0 :
    Then(devm_clk_get(m0, "venus", "vcodec0_bus"), LAMBDA b0 :
    Resolve(b0, "core0_bus_clk", LAMBDA m1 :
    Then(devm_clk_get(m1, "venus", "vcodec1_core"), LAMBDA c1 :
    Resolve(c1, "core1_clk", LAMBDA m2 :
    Then(devm_clk_get(m2, "venus", "vcodec1_bus"), LAMBDA b1 :
    Resolve(b1, "core1_bus_clk", LAMBDA m3 :
    Then(dev_pm_domain_attach_by_name(m3, "venus"), LAMBDA p :
    Resolve(p, "pd_core", LAMBDA m4 :
    Then(dev_pm_domain_attach_by_name(m4, "vcodec0"), LAMBDA p0 :
    Then({[p0.m EXCEPT !.core.pd_core0 = p0.h]}, LAMBDA m5 :
    Then(dev_pm_domain_attach_by_name(m5, "vcodec1"), LAMBDA p1 :
    Resolve(p1, "pd_core1", LAMBDA m6 :
    Then(device_link_add(m6, m6.core.pd_core), LAMBDA l :
    Then({[l.m EXCEPT !.core.pd_dl_venus = l.h]}, LAMBDA m7 :
         IF m7.core.pd_dl_venus = NULL
         THEN {[m |-> m7, ret |-> -ENODEV]}
         ELSE {[m |-> m7, ret |-> 0]})))))))))))))))))

core_get_pm_v4(m) ==
    Then(core_clks_get(m), LAMBDA g :
    IF g.ret # 0 THEN {g} ELSE
    Then(devm_clk_get(g.m, "venus", "vcodec0_core"), LAMBDA c0 :
    Resolve(c0, "core0_clk", LAMBDA m0 :
    Then(devm_clk_get(m0, "venus", "vcodec0_bus"), LAMBDA b0 :
    Resolve(b0, "core0_bus_clk", LAMBDA m1 :
    Then(devm_clk_get(m1, "venus", "vcodec1_core"), LAMBDA c1 :
    Resolve(c1, "core1_clk", LAMBDA m2 :
    Then(devm_clk_get(m2, "venus", "vcodec1_bus"), LAMBDA b1 :
    Resolve(b1, "core1_bus_clk", LAMBDA m3 :
    Then(dev_pm_domain_attach_by_name(m3, "venus"), LAMBDA p :
    Resolve(p, "pd_core", LAMBDA m4 :
    Then(dev_pm_domain_attach_by_name(m4, "vcodec0"), LAMBDA p0 :
    Resolve(p0, "pd_core0", LAMBDA m5 :
    Then(dev_pm_domain_attach_by_name(m5, "vcodec1"), LAMBDA p1 :
    Resolve(p1, "pd_core1", LAMBDA m6 :
    Then(device_link_add(m6, m6.core.pd_core), LAMBDA l :
    Then({[l.m EXCEPT !.core.pd_dl_venus = l.h]}, LAMBDA m7 :
         IF m7.core.pd_dl_venus = NULL
         THEN {[m |-> m7, ret |-> -ENODEV]}
         ELSE {[m |-> m7, ret |-> 0]})))))))))))))))))

\* variant: the domain handles are tested against NULL only
core_put_pm_v4_null_test(m) ==
    Let(IF m.core.pd_dl_venus # NULL
        THEN device_link_del(m, m.core.pd_dl_venus) ELSE m, LAMBDA m1 :
    Let(IF m1.core.pd_core # NULL
        THEN dev_pm_domain_detach(m1, m1.core.pd_core) ELSE m1, LAMBDA m2 :
    Let(IF m2.core.pd_core0 # NULL
        THEN dev_pm_domain_detach(m2, m2.core.pd_core0) ELSE m2, LAMBDA m3 :
        IF m3.core.pd_core1 # NULL
        THEN dev_pm_domain_detach(m3, m3.core.pd_core1) ELSE m3)))

\* variant: the link is left in place when the domains are detached
core_put_pm_v4_keeps_link(m) ==
    Let(IF ~IS_ERR_OR_NULL(m.core.pd_core)
        THEN dev_pm_domain_detach(m, m.core.pd_core) ELSE m, LAMBDA m2 :
    Let(IF ~IS_ERR_OR_NULL(m2.core.pd_core0)
        THEN dev_pm_domain_detach(m2, m2.core.pd_core0) ELSE m2, LAMBDA m3 :
        IF ~IS_ERR_OR_NULL(m3.core.pd_core1)
        THEN dev_pm_domain_detach(m3, m3.core.pd_core1) ELSE m3))

core_put_pm_v4(m) ==
    Let(IF m.core.pd_dl_venus # NULL
        THEN device_link_del(m, m.core.pd_dl_venus) ELSE m, LAMBDA m1 :
    Let(IF ~IS_ERR_OR_NULL(m1.core.pd_core)
        THEN dev_pm_domain_detach(m1, m1.core.pd_core) ELSE m1, LAMBDA m2 :
    Let(IF ~IS_ERR_OR_NULL(m2.core.pd_core0)
        THEN dev_pm_domain_detach(m2, m2.core.pd_core0) ELSE m2, LAMBDA m3 :
        IF ~IS_ERR_OR_NULL(m3.core.pd_core1)
        THEN dev_pm_domain_detach(m3, m3.core.pd_core1) ELSE m3)))

\* variant: power(off) returns as soon as the per-core power-off failed
core_power_v4_off_returns_early(m, on) ==
    IF on = POWER_ON
    THEN Then(core_clks_enable(m), LAMBDA r :
              IF r.ret # 0 THEN {r}
              ELSE poweron_by_core_id(r.m, VIDC_CORE_ID_1 + VIDC_CORE_ID_2))
    ELSE Then(poweroff_by_core_id(m, VIDC_CORE_ID_1 + VIDC_CORE_ID_2), LAMBDA r :
              IF r.ret # 0 THEN {r}
              ELSE {[m |-> core_clks_disable(r.m), ret |-> r.ret]})

\* variant: power(on) brings the cores up before the ClockSet
core_power_v4_on_cores_first(m, on) ==
    IF on = POWER_ON
    THEN Then(poweron_by_core_id(m, VIDC_CORE_ID_1 + VIDC_CORE_ID_2), LAMBDA q :
              IF q.ret # 0 THEN {q}
              ELSE core_clks_enable(q.m))
    ELSE Then(poweroff_by_core_id(m, VIDC_CORE_ID_1 + VIDC_CORE_ID_2), LAMBDA r :
              {[m |-> core_clks_disable(r.m), ret |-> r.ret]})

\* variant: power(off) names CORE_1 only
core_power_v4_off_core1_only(m, on) ==
    IF on = POWER_ON
    THEN Then(core_clks_enable(m), LAMBDA r :
              IF r.ret # 0 THEN {r}
              ELSE poweron_by_core_id(r.m, VIDC_CORE_ID_1 + VIDC_CORE_ID_2))
    ELSE Then(poweroff_by_core_id(m, VIDC_CORE_ID_1), LAMBDA r :
              {[m |-> core_clks_disable(r.m), ret |-> r.ret]})

\* variant: power(on) disables the ClockSet again when the cores failed
core_power_v4_on_rolls_back(m, on) ==
    IF on = POWER_ON
    THEN Then(core_clks_enable(m), LAMBDA r :
              IF r.ret # 0 THEN {r}
              ELSE Then(poweron_by_core_id(r.m, VIDC_CORE_ID_1 + VIDC_CORE_ID_2),
                        LAMBDA q :
                            IF q.ret # 0
                            THEN {[m |-> core_clks_disable(q.m), ret |-> q.ret]}
                            ELSE {q}))
    ELSE Then(poweroff_by_core_id(m, VIDC_CORE_ID_1 + VIDC_CORE_ID_2), LAMBDA r :
              {[m |-> core_clks_disable(r.m), ret |-> r.ret]})

\* variant: power(on) goes on to the cores after a failed ClockSet enable
core_power_v4_on_ignores_clks(m, on) ==
    IF on = POWER_ON
    THEN Then(core_clks_enable(m), LAMBDA r :
              poweron_by_core_id(r.m, VIDC_CORE_ID_1 + VIDC_CORE_ID_2))
    ELSE Then(poweroff_by_core_id(m, VIDC_CORE_ID_1 + VIDC_CORE_ID_2), LAMBDA r :
              {[m |-> core_clks_disable(r.m), ret |-> r.ret]})

core_power_v4(m, on) ==
    IF on = POWER_ON
    THEN Then(core_clks_enable(m), LAMBDA r :
              IF r.ret # 0 THEN {r}
              ELSE poweron_by_core_id(r.m, VIDC_CORE_ID_1 + VIDC_CORE_ID_2))
    ELSE Then(poweroff_by_core_id(m, VIDC_CORE_ID_1 + VIDC_CORE_ID_2), LAMBDA r :
              {[m |-> core_clks_disable(r.m), ret |-> r.ret]})

venus_pm_ops_v4 ==
    [core_get_pm |-> "core_get_pm_v4", core_put_pm |-> "core_put_pm_v4",
     core_power  |-> "core_power_v4",
     vdec_get_pm |-> "NULL", vdec_power |-> "NULL",
     venc_get_pm |-> "NULL", venc_power |-> "NULL"]

\* ------------------------------------------------ Version Strategy Selector
\* variant: the default case selects the V3 table
venus_get_pm_ops_default_v3(v) ==
    CASE v = HFI_VERSION_1XX -> venus_pm_ops_v1
      [] v = HFI_VERSION_3XX -> venus_pm_ops_v3
      [] v = HFI_VERSION_4XX -> venus_pm_ops_v4
      [] OTHER               -> venus_pm_ops_v3

venus_get_pm_ops(v) ==
    CASE v = HFI_VERSION_1XX -> venus_pm_ops_v1
      [] v = HFI_VERSION_3XX -> venus_pm_ops_v3
      [] v = HFI_VERSION_4XX -> venus_pm_ops_v4
      [] OTHER               -> venus_pm_ops_v1       \* default

\* ------------------------------------------------------------------- state
\* what `pre` remembers of the state a handler was called in
Snapshot == [enable_count |-> enable_count, usage_count |-> usage_count,
             reg |-> reg, link |-> link, attached |-> attached, core |-> core,
             call |-> call, arg |-> arg, ret |-> ret,
             before |-> pre.enable_count, usage_before |-> pre.usage_count]

Machine ==
    [clks_num |-> clks_num, core |-> core, enable_count |-> enable_count,
     usage_count |-> usage_count, active |-> active, attached |-> attached,
     link |-> link, reg |-> reg, log |-> <<>>, seq |-> 0,
     reads |-> <<>>, settle |-> PowerSettles]

\* a V4 power(off) that returned before the domain of CORE_2 was released
CutShort(name, on, l) ==
    /\ name = "core_power" /\ on = POWER_OFF
    /\ ops.core_power = "core_power_v4"
    /\ \A j \in DOMAIN l : ~(l[j].op = "pm_runtime_put_sync" /\ l[j].res = "vcodec1")

Commit(name, on, m, r) ==
    /\ core' = m.core
    /\ enable_count' = m.enable_count
    /\ usage_count' = m.usage_count
    /\ active' = m.active
    /\ attached' = m.attached
    /\ link' = m.link
    /\ reg' = m.reg
    /\ log' = m.log
    /\ reads' = m.reads
    /\ settle' = m.settle
    /\ cutshort' = (cutshort \/ CutShort(name, on, m.log))
    /\ call' = name
    /\ arg' = on
    /\ ret' = r
    /\ pre' = Snapshot
    /\ UNCHANGED <<version, ops, clks_num>>

Got(r) == IF r = 0 THEN "ok" ELSE "err"

Init ==
    /\ version \in 0..MaxVersion
    /\ ops = venus_get_pm_ops(version)
    /\ clks_num \in 0..MaxClks
    /\ core = [clks |-> [i \in 0..(MaxClks - 1) |-> NULL],
               core0_clk |-> NULL, core0_bus_clk |-> NULL,
               core1_clk |-> NULL, core1_bus_clk |-> NULL,
               pd_core |-> NULL, pd_core0 |-> NULL, pd_core1 |-> NULL,
               pd_dl_venus |-> NULL]
    /\ enable_count = [c \in ClockNames |-> 0]
    /\ usage_count = [d \in PdNames |-> 0]
    /\ active = [d \in PdNames |-> FALSE]
    /\ attached = {}
    /\ link = FALSE
    /\ reg = [r \in Regs |-> 0]
    /\ life = [d \in {"core", "vdec", "venc"} |-> "none"]
    /\ ncalls = 0
    /\ call = "none"
    /\ arg = POWER_OFF
    /\ ret = 0
    /\ log = <<>>
    /\ reads = <<>>
    /\ settle = PowerSettles
    /\ cutshort = FALSE
    /\ pre = [enable_count |-> enable_count, usage_count |-> usage_count,
              reg |-> reg, link |-> link, attached |-> attached, core |-> core,
              call |-> call, arg |-> arg, ret |-> ret,
              before |-> enable_count, usage_before |-> usage_count]

\* ----------------------------------------------------------------- handlers
\* Each handler is reached through the function table `o` of the device.

\* o->core_get_pm(dev), once per device
CoreGetPmOf(o) ==
    /\ life["core"] = "none"
    /\ \E m \in {Machine} :
       \E r \in (IF o.core_get_pm = "core_get_pm_v4"
                 THEN core_get_pm_v4(m) ELSE core_get_pm_v1(m)) :
         /\ Commit("core_get_pm", POWER_OFF, r.m, r.ret)
         /\ life' = [life EXCEPT !["core"] = Got(r.ret)]
    /\ UNCHANGED ncalls

\* o->core_put_pm(dev), when the strategy has one
CorePutPmOf(o) ==
    /\ o.core_put_pm # "NULL"
    /\ life["core"] \in {"ok", "err"}
    /\ \E m \in {Machine} :
       \E m1 \in {core_put_pm_v4(m)} :
         Commit("core_put_pm", POWER_OFF, m1, 0)
    /\ life' = [life EXCEPT !["core"] = "put"]
    /\ UNCHANGED ncalls

\* o->core_power(dev, on)
CorePowerOf(o) ==
    /\ life["core"] = "ok"
    /\ ncalls < MaxCalls
    /\ \E on \in {POWER_ON, POWER_OFF} :
       \E m \in {Machine} :
       \E r \in (IF o.core_power = "core_power_v4"
                 THEN core_power_v4(m, on) ELSE core_power_v1(m, on)) :
         Commit("core_power", on, r.m, r.ret)
    /\ ncalls' = ncalls + 1
    /\ UNCHANGED life

\* o->vdec_get_pm(dev)
VdecGetPmOf(o) ==
    /\ o.vdec_get_pm # "NULL"
    /\ life["core"] = "ok"
    /\ life["vdec"] = "none"
    /\ \E m \in {Machine} :
       \E r \in vdec_get_pm_v3(m) :
         /\ Commit("vdec_get_pm", POWER_OFF, r.m, r.ret)
         /\ life' = [life EXCEPT !["vdec"] = Got(r.ret)]
    /\ UNCHANGED ncalls

\* o->vdec_power(dev, on)
VdecPowerOf(o) ==
    /\ o.vdec_power # "NULL"
    /\ life["vdec"] = "ok"
    /\ ncalls < MaxCalls
    /\ \E on \in {POWER_ON, POWER_OFF} :
       \E m \in {Machine} :
       \E r \in vdec_power_v3(m, on) :
         Commit("vdec_power", on, r.m, r.ret)
    /\ ncalls' = ncalls + 1
    /\ UNCHANGED life

\* o->venc_get_pm(dev)
VencGetPmOf(o) ==
    /\ o.venc_get_pm # "NULL"
    /\ life["core"] = "ok"
    /\ life["venc"] = "none"
    /\ \E m \in {Machine} :
       \E r \in venc_get_pm_v3(m) :
         /\ Commit("venc_get_pm", POWER_OFF, r.m, r.ret)
         /\ life' = [life EXCEPT !["venc"] = Got(r.ret)]
    /\ UNCHANGED ncalls

\* o->venc_power(dev, on)
VencPowerOf(o) ==
    /\ o.venc_power # "NULL"
    /\ life["venc"] = "ok"
    /\ ncalls < MaxCalls
    /\ \E on \in {POWER_ON, POWER_OFF} :
       \E m \in {Machine} :
       \E r \in venc_power_v3(m, on) :
         Commit("venc_power", on, r.m, r.ret)
    /\ ncalls' = ncalls + 1
    /\ UNCHANGED life

CoreGetPm == CoreGetPmOf(ops)
CorePutPm == CorePutPmOf(ops)
CorePower == CorePowerOf(ops)
VdecGetPm == VdecGetPmOf(ops)
VdecPower == VdecPowerOf(ops)
VencGetPm == VencGetPmOf(ops)
VencPower == VencPowerOf(ops)

\* the steps of a device driven through the function table `o`
NextOf(o) ==
    \/ CoreGetPmOf(o)
    \/ CorePutPmOf(o)
    \/ CorePowerOf(o)
    \/ VdecGetPmOf(o)
    \/ VdecPowerOf(o)
    \/ VencGetPmOf(o)
    \/ VencPowerOf(o)

Next ==
    \/ CoreGetPm
    \/ CorePutPm
    \/ CorePower
    \/ VdecGetPm
    \/ VdecPower
    \/ VencGetPm
    \/ VencPower

Spec == Init /\ [][Next]_vars

\* ------------------------------------------------- the handshake on its own
\* vcodec_power_control_v4(core, coreid, enable) against a status source
\* that settles at read number src, on a V4 device
InitHandshake ==
    /\ Init
    /\ version = HFI_VERSION_4XX
    /\ clks_num = 0

Handshake ==
    /\ call = "none"
    /\ \E coreid \in {VIDC_CORE_ID_1, VIDC_CORE_ID_2}, enable \in BOOLEAN,
          src \in AllSettles :
       \E m \in {[Machine EXCEPT !.settle = {src}]} :
       \E r \in vcodec_power_control_v4(m, coreid, enable) :
         Commit("vcodec_power_control_v4", IF enable THEN 1 ELSE 0, r.m, r.ret)
    /\ UNCHANGED <<life, ncalls>>

NextHandshake == Handshake

SpecHandshake == InitHandshake /\ [][NextHandshake]_vars

\* ============================================================ log helpers
IsV4 == ops.core_power = "core_power_v4"
IsV1Power == ops.core_power = "core_power_v1"
Core1Res == Core0Clks \cup {"vcodec0", WRAPPER_VCODEC0_MMCC_POWER_CONTROL,
                            WRAPPER_VCODEC0_MMCC_POWER_STATUS}
Core2Res == Core1Clks \cup {"vcodec1", WRAPPER_VCODEC1_MMCC_POWER_CONTROL,
                            WRAPPER_VCODEC1_MMCC_POWER_STATUS}
PerCoreRes == Core1Res \cup Core2Res
ClkIdx(name) == CHOOSE i \in 0..(MaxClks - 1) : SharedClk(i) = name
PerCoreLog == SelectSeq(log, LAMBDA e : e.res \in PerCoreRes)
SharedLog == SelectSeq(log, LAMBDA e : e.res \in SharedClks)
\* the shared clock whose enable failed in the last call, if any
FailedEnables == {j \in DOMAIN log : /\ log[j].op = "clk_prepare_enable"
                                     /\ log[j].res \in SharedClks
                                     /\ log[j].val # 0}
\* disableAll: every clock of the set once, from clks_num-1 down to 0
DisableAllLog == [j \in 1..clks_num |->
                    Ev("clk_disable_unprepare", SharedClk(clks_num - j), 0)]

\* operation and resource of every entry of a log
Shape(l) == [j \in DOMAIN l |-> [op |-> l[j].op, res |-> l[j].res]]
Op(op, res) == [op |-> op, res |-> res]
Core1Log == SelectSeq(log, LAMBDA e : e.res \in Core1Res)
Core2Log == SelectSeq(log, LAMBDA e : e.res \in Core2Res)
\* the operations of one core's power-on and power-off sequence
CoreOnShape(pd, ctrl, stat, clk, bus) ==
    << Op("pm_runtime_get_sync", pd),
       Op("writel", ctrl), Op("readl_poll_timeout", stat),
       Op("clk_prepare_enable", clk), Op("clk_prepare_enable", bus),
       Op("writel", ctrl), Op("readl_poll_timeout", stat) >>
CoreOffShape(pd, ctrl, stat, clk, bus) ==
    << Op("writel", ctrl), Op("readl_poll_timeout", stat),
       Op("clk_disable_unprepare", bus), Op("clk_disable_unprepare", clk),
       Op("writel", ctrl), Op("readl_poll_timeout", stat),
       Op("pm_runtime_put_sync", pd) >>
Core1Shape(on) ==
    IF on = POWER_ON
    THEN CoreOnShape("vcodec0", WRAPPER_VCODEC0_MMCC_POWER_CONTROL,
                     WRAPPER_VCODEC0_MMCC_POWER_STATUS,
                     ClkName("venus", "vcodec0_core"), ClkName("venus", "vcodec0_bus"))
    ELSE CoreOffShape("vcodec0", WRAPPER_VCODEC0_MMCC_POWER_CONTROL,
                      WRAPPER_VCODEC0_MMCC_POWER_STATUS,
                      ClkName("venus", "vcodec0_core"), ClkName("venus", "vcodec0_bus"))
Core2Shape(on) ==
    IF on = POWER_ON
    THEN CoreOnShape("vcodec1", WRAPPER_VCODEC1_MMCC_POWER_CONTROL,
                     WRAPPER_VCODEC1_MMCC_POWER_STATUS,
                     ClkName("venus", "vcodec1_core"), ClkName("venus", "vcodec1_bus"))
    ELSE CoreOffShape("vcodec1", WRAPPER_VCODEC1_MMCC_POWER_CONTROL,
                      WRAPPER_VCODEC1_MMCC_POWER_STATUS,
                      ClkName("venus", "vcodec1_core"), ClkName("venus", "vcodec1_bus"))
\* a logged step succeeded: a domain acquire may report 1, a created link is 1
StepOK(e) ==
    CASE e.op = "pm_runtime_get_sync" -> e.val >= 0
      [] e.op = "device_link_add"     -> e.val = 1
      [] e.op = "writel"              -> TRUE
      [] OTHER                        -> e.val = 0
\* the resolution steps of the V4 getPm, in order
GetPmShape ==
    [j \in 1..clks_num |-> Op("devm_clk_get", SharedClk(j - 1))] \o
    << Op("devm_clk_get", ClkName("venus", "vcodec0_core")),
       Op("devm_clk_get", ClkName("venus", "vcodec0_bus")),
       Op("devm_clk_get", ClkName("venus", "vcodec1_core")),
       Op("devm_clk_get", ClkName("venus", "vcodec1_bus")),
       Op("dev_pm_domain_attach_by_name", "venus"),
       Op("dev_pm_domain_attach_by_name", "vcodec0"),
       Op("dev_pm_domain_attach_by_name", "vcodec1"),
       Op("device_link_add", "venus") >>
KnownVersions == {HFI_VERSION_1XX, HFI_VERSION_3XX, HFI_VERSION_4XX}
PerCoreClks == Core0Clks \cup Core1Clks
\* a per-core clock is enabled only while every clock of the shared
\* ClockSet is enabled and the domain of its core is acquired
PerCoreClksGuarded ==
    /\ (\E c \in Core0Clks : enable_count[c] > 0) =>
          /\ \A i \in 0..(clks_num - 1) : enable_count[SharedClk(i)] > 0
          /\ usage_count["vcodec0"] > 0
    /\ (\E c \in Core1Clks : enable_count[c] > 0) =>
          /\ \A i \in 0..(clks_num - 1) : enable_count[SharedClk(i)] > 0
          /\ usage_count["vcodec1"] > 0

\* ================================================================== claims

\* C1: every V4 power(off) disables the shared ClockSet (all of it, in
\* reverse order) after the last per-core operation, whatever the per-core
\* power-off did, and returns the result of the per-core power-off: the
\* value of the per-core step that ended it, never a value of a clock.
C1_OffAlwaysDisablesClockSet ==
    (call = "core_power" /\ arg = POWER_OFF /\ IsV4) =>
        /\ Len(PerCoreLog) > 0
        /\ log = PerCoreLog \o DisableAllLog
        /\ ret = PerCoreLog[Len(PerCoreLog)].val
        /\ \A i \in 0..(clks_num - 1) :
             enable_count[SharedClk(i)] = Dec(pre.enable_count[SharedClk(i)])

\* a V4 power(off) whose CORE_1 domain release failed, on a set with clocks
C1_Witness ==
    /\ call = "core_power" /\ arg = POWER_OFF /\ IsV4
    /\ clks_num >= 2
    /\ ret < 0
    /\ \E j \in DOMAIN log : /\ log[j].op = "pm_runtime_put_sync"
                             /\ log[j].res = "vcodec0"
                             /\ log[j].val < 0
    /\ pre.enable_count[SharedClk(0)] > 0

\* C2: when enabling the clock at index k fails in enableAll, the calls made
\* are exactly: enable 0..k-1, the failed enable of k, disable k-1..0; the
\* error of k is returned and no clock's enable count has changed.
C2_EnableRollback ==
    \A j \in FailedEnables :
        call = "core_power" =>
            LET k == ClkIdx(log[j].res)
            IN  /\ arg = POWER_ON
                /\ j = k + 1
                /\ k < clks_num
                /\ log = [i \in 1..(2 * k + 1) |->
                            IF i <= k
                            THEN Ev("clk_prepare_enable", SharedClk(i - 1), 0)
                            ELSE IF i = k + 1
                            THEN Ev("clk_prepare_enable", SharedClk(k), ret)
                            ELSE Ev("clk_disable_unprepare",
                                    SharedClk(2 * k + 1 - i), 0)]
                /\ ret # 0
                /\ enable_count = pre.enable_count

\* enableAll failed at index 2: two clocks were enabled and rolled back
C2_Witness ==
    /\ call = "core_power" /\ arg = POWER_ON
    /\ \E j \in FailedEnables : ClkIdx(log[j].res) = 2
    /\ Len(log) = 5

\* C3 (as stated): a V1 power(off) that directly follows a V1 power(on)
\* leaves every clock of the shared ClockSet with the enable count it had
\* before the power(on), whatever the power(on) returned.
C3_OnOffRestoresForEveryOutcome ==
    (/\ call = "core_power" /\ arg = POWER_OFF /\ IsV1Power
     /\ pre.call = "core_power" /\ pre.arg = POWER_ON) =>
        \A i \in 0..(clks_num - 1) :
            enable_count[SharedClk(i)] = pre.before[SharedClk(i)]

\* C3: a V1 power(off) that directly follows a V1 power(on) which returned
\* Ok leaves every clock of the shared ClockSet with the enable count it
\* had before the power(on); after a power(on) that failed (and so already
\* restored the counts itself) the power(off) lowers every count that is
\* still positive by one.
C3_OnOffRestores ==
    (/\ call = "core_power" /\ arg = POWER_OFF /\ IsV1Power
     /\ pre.call = "core_power" /\ pre.arg = POWER_ON) =>
        \A i \in 0..(clks_num - 1) :
            enable_count[SharedClk(i)] =
                IF pre.ret = 0 THEN pre.before[SharedClk(i)]
                ELSE Dec(pre.before[SharedClk(i)])

\* on, on, off on a set of two or more clocks: the last on/off pair leaves
\* the counts at 1
C3_Witness ==
    /\ call = "core_power" /\ arg = POWER_OFF /\ IsV1Power
    /\ pre.call = "core_power" /\ pre.arg = POWER_ON /\ pre.ret = 0
    /\ clks_num >= 2
    /\ pre.before[SharedClk(1)] = 1
    /\ pre.enable_count[SharedClk(1)] = 2
    /\ enable_count[SharedClk(1)] = 1

\* C4: the V4 getPm makes its resolution steps in one fixed order (shared
\* ClockSet, core0 clock, core0 bus clock, core1 clock, core1 bus clock,
\* shared domain, core0 domain, core1 domain, link); the first step that
\* fails is the last step made, its error is returned and no link exists
\* afterwards; Ok is returned only when every step was made and succeeded.
C4_GetPmOrderAndAbort ==
    (call = "core_get_pm" /\ IsV4) =>
        LET n    == Len(log)
            last == log[n]
        IN  /\ n \in 1..Len(GetPmShape)
            /\ Shape(log) = SubSeq(GetPmShape, 1, n)
            /\ \A j \in 1..(n - 1) : StepOK(log[j])
            /\ IF StepOK(last)
               THEN /\ n = Len(GetPmShape)
                    /\ ret = 0
                    /\ link
               ELSE /\ ret = (IF last.op = "device_link_add" THEN -ENODEV ELSE last.val)
                    /\ ret # 0
                    /\ ~link
                    /\ core.pd_dl_venus = NULL

\* the core0 domain cannot be attached: two domains are never asked for
C4_Witness ==
    /\ call = "core_get_pm" /\ IsV4 /\ clks_num >= 1
    /\ log[Len(log)].op = "dev_pm_domain_attach_by_name"
    /\ log[Len(log)].res = "vcodec0"
    /\ ret < 0
    /\ attached = {"venus"}
    /\ ~link

\* C5: a V4 power(on) enables the whole shared ClockSet before its first
\* per-core operation; when a ClockSet enable fails it returns that error,
\* makes no per-core operation at all and leaves every enable count, usage
\* count and register as it found them.
C5_ClockSetFirst ==
    (call = "core_power" /\ arg = POWER_ON /\ IsV4) =>
        /\ \A i, j \in DOMAIN log :
              (i < j /\ log[i].res \in PerCoreRes) => log[j].res \notin SharedClks
        /\ PerCoreLog # <<>> =>
              SubSeq(log, 1, clks_num) =
                  [i \in 1..clks_num |-> Ev("clk_prepare_enable", SharedClk(i - 1), 0)]
        /\ \A j \in FailedEnables :
              /\ PerCoreLog = <<>>
              /\ ret = log[j].val
              /\ enable_count = pre.enable_count
              /\ usage_count = pre.usage_count
              /\ reg = pre.reg

\* the second clock of the set fails on a device that is already powered
C5_Witness ==
    /\ call = "core_power" /\ arg = POWER_ON /\ IsV4
    /\ \E j \in FailedEnables : ClkIdx(log[j].res) = 1
    /\ usage_count["vcodec0"] = 1
    /\ enable_count[SharedClk(0)] = 1

\* C6: a V4 power(on) returns Ok exactly when, for CORE_1 and for CORE_2,
\* the domain acquire, the handshake assert and its status wait, the core
\* and core-bus clock enables and the handshake de-assert and its status
\* wait were all made and succeeded; a domain acquire reporting 1 is a
\* success, and the value returned is never positive.
C6_PowerOnOkIff ==
    (call = "core_power" /\ arg = POWER_ON /\ IsV4) =>
        /\ ret = 0 <=>
              /\ Shape(PerCoreLog) = Core1Shape(POWER_ON) \o Core2Shape(POWER_ON)
              /\ \A j \in DOMAIN PerCoreLog : StepOK(PerCoreLog[j])
        /\ ret <= 0

\* both domains were already active and power(on) still returned Ok
C6_Witness ==
    /\ call = "core_power" /\ arg = POWER_ON /\ IsV4
    /\ ret = 0
    /\ \E j \in DOMAIN log : /\ log[j].op = "pm_runtime_get_sync"
                             /\ log[j].res = "vcodec0"
                             /\ log[j].val = 1
    /\ \E j \in DOMAIN log : /\ log[j].op = "pm_runtime_get_sync"
                             /\ log[j].res = "vcodec1"
                             /\ log[j].val = 1

\* C7: the function table selected is the V1 table for generation 1, the
\* V3 table for generation 3, the V4 table for generation 4 and the V1
\* table for every other identifier, and every step of a device with an
\* unrecognized identifier is a step of the V1 strategy.
C7_SelectorFallback ==
    [][ /\ ops = (IF version = HFI_VERSION_3XX THEN venus_pm_ops_v3
                  ELSE IF version = HFI_VERSION_4XX THEN venus_pm_ops_v4
                  ELSE venus_pm_ops_v1)
        /\ version \notin KnownVersions => NextOf(venus_get_pm_ops(HFI_VERSION_1XX))
      ]_vars

\* a device with an unrecognized identifier whose clocks were switched on
C7_Witness ==
    /\ version \notin KnownVersions
    /\ call = "core_power" /\ arg = POWER_ON /\ ret = 0
    /\ clks_num >= 1
    /\ enable_count[SharedClk(0)] = 1
    /\ Len(log) = clks_num

\* C8: in a V4 power(on) and power(off) no operation on a CORE_1 resource
\* follows an operation on a CORE_2 resource, and when a CORE_2 resource is
\* operated on, the whole CORE_1 sequence has been made before.
C8_Core1BeforeCore2 ==
    (call = "core_power" /\ IsV4) =>
        /\ \A i, j \in DOMAIN log :
              (i < j /\ log[i].res \in Core2Res) => log[j].res \notin Core1Res
        /\ Core2Log # <<>> => Shape(Core1Log) = Core1Shape(arg)
        /\ Shape(Core2Log) = SubSeq(Core2Shape(arg), 1, Len(Core2Log))

\* a power(off) whose CORE_1 de-assert timed out and which went on to CORE_2
C8_Witness ==
    /\ call = "core_power" /\ arg = POWER_OFF /\ IsV4
    /\ Len(Core1Log) = 7
    /\ Core1Log[6].val = -ETIMEDOUT
    /\ Len(Core2Log) = 7

\* C9: a V3 vdecPower operates on the decoder control register and the
\* decoder core clock only and changes nothing else; a V3 vencPower
\* operates on the encoder control register and the encoder core clock only
\* and changes nothing else; this holds whatever the call returns and
\* whatever calls were made before.
C9_SessionsIndependent ==
    \A t \in {"vdec", "venc"} :
        call = t \o "_power" =>
            LET ctrl == IF t = "vdec" THEN WRAPPER_VDEC_VCODEC_POWER_CONTROL
                        ELSE WRAPPER_VENC_VCODEC_POWER_CONTROL
                clk  == ClkName(t, "core")
            IN  /\ \A j \in DOMAIN log : log[j].res \in {ctrl, clk}
                /\ \A c \in ClockNames \ {clk} : enable_count[c] = pre.enable_count[c]
                /\ \A r \in Regs \ {ctrl} : reg[r] = pre.reg[r]
                /\ usage_count = pre.usage_count
                /\ attached = pre.attached
                /\ link = pre.link
                /\ core = pre.core

\* the decoder's power(on) fails while the encoder is powered
C9_Witness ==
    /\ call = "vdec_power" /\ arg = POWER_ON /\ ret < 0
    /\ enable_count[ClkName("venc", "core")] = 1
    /\ reg[WRAPPER_VENC_VCODEC_POWER_CONTROL] = 1
    /\ enable_count[ClkName("vdec", "core")] = 0

\* C10: every V3 vdecPower and vencPower call makes exactly three steps:
\* the assert write (0) to the session's control register, the enable (on)
\* or disable (off) of the session's core clock, the de-assert write (1) to
\* the same register; no status is polled; on returns the result of the
\* clock enable, also when it failed, and off returns Ok.
C10_ThreeSteps ==
    \A t \in {"vdec", "venc"} :
        call = t \o "_power" =>
            LET ctrl == IF t = "vdec" THEN WRAPPER_VDEC_VCODEC_POWER_CONTROL
                        ELSE WRAPPER_VENC_VCODEC_POWER_CONTROL
                clk  == ClkName(t, "core")
            IN  /\ log = << Ev("writel", ctrl, 0),
                            IF arg = POWER_ON
                            THEN Ev("clk_prepare_enable", clk, ret)
                            ELSE Ev("clk_disable_unprepare", clk, 0),
                            Ev("writel", ctrl, 1) >>
                /\ arg = POWER_OFF => ret = 0
                /\ reg[ctrl] = 1

\* a decoder power(on) whose clock enable failed still wrote the de-assert
C10_Witness ==
    /\ call = "vdec_power" /\ arg = POWER_ON
    /\ Len(log) = 3
    /\ log[2].op = "clk_prepare_enable" /\ log[2].val < 0
    /\ log[3] = Ev("writel", WRAPPER_VDEC_VCODEC_POWER_CONTROL, 1)
    /\ ret = log[2].val

\* C11: on a V4 device the power-domain link exists exactly after a getPm
\* that returned Ok and before putPm: it is absent before getPm, absent
\* after a getPm that failed (a getPm whose link creation fails returns an
\* error), present after a getPm that returned Ok, left as it is by every
\* power call, and absent after putPm.
C11_LinkLifetime ==
    IsV4 =>
        /\ link <=> life["core"] = "ok"
        /\ call = "none" => ~link
        /\ call = "core_get_pm" => (link <=> ret = 0)
        /\ call = "core_power" => (link /\ pre.link)
        /\ call = "core_put_pm" => ~link
        /\ link <=> core.pd_dl_venus # NULL /\ life["core"] # "put"

\* putPm removes the link of a device that was powered on and off
C11_Witness ==
    /\ IsV4 /\ call = "core_put_pm"
    /\ pre.link /\ ~link
    /\ pre.call = "core_power"
    /\ ncalls >= 2

\* C12: a handshake (vcodec_power_control_v4) writes the control register
\* of its core once, then polls the status register of that core once; it
\* returns Ok exactly when the status source settles within the 100 reads
\* the poll may make (timeout 100 us, one read per 1 us), having made as
\* many reads as the source needed; otherwise it returns the timeout after
\* exactly 100 reads, without writing the control register again and
\* without polling again.
C12_HandshakeOnce ==
    call = "vcodec_power_control_v4" =>
        /\ Len(log) = 2
        /\ \/ /\ log[1].res = WRAPPER_VCODEC0_MMCC_POWER_CONTROL
              /\ log[2].res = WRAPPER_VCODEC0_MMCC_POWER_STATUS
           \/ /\ log[1].res = WRAPPER_VCODEC1_MMCC_POWER_CONTROL
              /\ log[2].res = WRAPPER_VCODEC1_MMCC_POWER_STATUS
        /\ log[1].op = "writel"
        /\ log[1].val = (IF arg = 1 THEN 0 ELSE 1)
        /\ reg[log[1].res] = log[1].val
        /\ log[2].op = "readl_poll_timeout"
        /\ log[2].val = ret
        /\ Len(reads) = 1
        /\ \A src \in settle :
              /\ ret = 0 <=> src \in 1..100
              /\ ret = 0 => reads[1] = src
              /\ ret # 0 => (ret = -ETIMEDOUT /\ reads[1] = 100)

\* the status never changes: the timeout comes after 100 reads
C12_Witness ==
    /\ call = "vcodec_power_control_v4"
    /\ settle = {NeverSettles}
    /\ ret = -ETIMEDOUT
    /\ reads = <<100>>
    /\ Len(log) = 2

\* C13: in a V4 power(on) the operations on each core are made in the order
\* domain acquire, handshake assert (write, status wait), core clock
\* enable, core-bus clock enable, handshake de-assert (write, status wait),
\* and every operation of a core but its last one has succeeded: no step
\* is started after a failed step of that core.
C13_PowerOnStepOrder ==
    (call = "core_power" /\ arg = POWER_ON /\ IsV4) =>
        /\ Len(Core1Log) <= Len(Core1Shape(POWER_ON))
        /\ Shape(Core1Log) = SubSeq(Core1Shape(POWER_ON), 1, Len(Core1Log))
        /\ \A j \in 1..(Len(Core1Log) - 1) : StepOK(Core1Log[j])
        /\ Len(Core2Log) <= Len(Core2Shape(POWER_ON))
        /\ Shape(Core2Log) = SubSeq(Core2Shape(POWER_ON), 1, Len(Core2Log))
        /\ \A j \in 1..(Len(Core2Log) - 1) : StepOK(Core2Log[j])

\* the core clock of CORE_2 could not be enabled: its bus clock and its
\* de-assert are not started
C13_Witness ==
    /\ call = "core_power" /\ arg = POWER_ON /\ IsV4
    /\ Len(Core1Log) = 7
    /\ Len(Core2Log) = 4
    /\ Core2Log[4].op = "clk_prepare_enable"
    /\ Core2Log[4].val < 0
    /\ ret = Core2Log[4].val

\* C14: when a V4 power(on) fails at a per-core step (after the ClockSet
\* was enabled), the failed step is the last operation made and its error
\* is returned; nothing is disabled or released in the call: every shared
\* clock is one enable up, every per-core clock enabled in the call stays
\* enabled, every domain acquired in the call stays acquired, and the
\* handshake of a core that was asserted and not yet de-asserted stays
\* asserted.
C14_PowerOnNoRollback ==
    (/\ call = "core_power" /\ arg = POWER_ON /\ IsV4
     /\ ret # 0 /\ FailedEnables = {}) =>
        LET last == log[Len(log)]
        IN  /\ Len(log) > clks_num
            /\ last.res \in PerCoreRes
            /\ ~StepOK(last)
            /\ ret = last.val
            /\ \A j \in DOMAIN log :
                  log[j].op \notin {"clk_disable_unprepare", "pm_runtime_put_sync"}
            /\ \A i \in 0..(clks_num - 1) :
                  enable_count[SharedClk(i)] = pre.enable_count[SharedClk(i)] + 1
            /\ \A c \in Core0Clks \cup Core1Clks :
                  enable_count[c] = pre.enable_count[c] +
                      Cardinality({j \in DOMAIN log :
                                     log[j] = Ev("clk_prepare_enable", c, 0)})
            /\ \A d \in {"vcodec0", "vcodec1"} :
                  usage_count[d] = pre.usage_count[d] +
                      Cardinality({j \in DOMAIN log :
                                     /\ log[j].op = "pm_runtime_get_sync"
                                     /\ log[j].res = d})
            /\ Len(Core1Log) \in 2..5 =>
                  /\ reg[WRAPPER_VCODEC0_MMCC_POWER_CONTROL] = 0
                  /\ Ev("writel", WRAPPER_VCODEC0_MMCC_POWER_CONTROL, 1)
                        \notin {log[j] : j \in DOMAIN log}
            /\ Len(Core2Log) \in 2..5 =>
                  /\ reg[WRAPPER_VCODEC1_MMCC_POWER_CONTROL] = 0
                  /\ Ev("writel", WRAPPER_VCODEC1_MMCC_POWER_CONTROL, 1)
                        \notin {log[j] : j \in DOMAIN log}

\* CORE_2's bus clock fails after CORE_1 was brought up: CORE_1 stays up,
\* CORE_2 keeps its domain, its core clock and its asserted handshake
C14_Witness ==
    /\ call = "core_power" /\ arg = POWER_ON /\ IsV4 /\ ret < 0
    /\ clks_num >= 1
    /\ Len(Core2Log) = 5
    /\ enable_count[SharedClk(0)] = 1
    /\ usage_count["vcodec0"] = 1 /\ usage_count["vcodec1"] = 1
    /\ enable_count[ClkName("venus", "vcodec0_bus")] = 1
    /\ enable_count[ClkName("venus", "vcodec1_core")] = 1
    /\ enable_count[ClkName("venus", "vcodec1_bus")] = 0
    /\ reg[WRAPPER_VCODEC1_MMCC_POWER_CONTROL] = 0

\* C15: in a V4 power(off) the operations on each core are made in the
\* order handshake assert (write, status wait), core-bus clock disable,
\* core clock disable, handshake de-assert (write, status wait), domain
\* release.  A core whose assert succeeded is taken to its domain release
\* whatever the de-assert wait returned; the result of the core is that of
\* its release alone: a failed release of CORE_1 is returned, Ok lets
\* CORE_2 be processed, and the release of CORE_2 is the result returned.
C15_PowerOffStepOrder ==
    (call = "core_power" /\ arg = POWER_OFF /\ IsV4) =>
        /\ Shape(Core1Log) = SubSeq(Core1Shape(POWER_OFF), 1, Len(Core1Log))
        /\ Shape(Core2Log) = SubSeq(Core2Shape(POWER_OFF), 1, Len(Core2Log))
        /\ Len(Core1Log) \in {2, 7}
        /\ Len(Core2Log) \in {0, 2, 7}
        /\ Len(Core1Log) = 7 <=> Core1Log[2].val = 0
        /\ Len(Core2Log) >= 2 => (Len(Core2Log) = 7 <=> Core2Log[2].val = 0)
        /\ Len(Core1Log) = 7 =>
              IF Core1Log[7].val < 0
              THEN ret = Core1Log[7].val
              ELSE Len(Core2Log) >= 2
        /\ Len(Core2Log) = 7 => ret = Core2Log[7].val

\* the de-assert of CORE_2 timed out, its domain was released all the same
\* and power(off) returned Ok
C15_Witness ==
    /\ call = "core_power" /\ arg = POWER_OFF /\ IsV4
    /\ Len(Core2Log) = 7
    /\ Core2Log[6].val = -ETIMEDOUT
    /\ Core2Log[7].val = 0
    /\ ret = 0
    /\ pre.usage_count["vcodec1"] = 1 /\ usage_count["vcodec1"] = 0

\* C16: when CORE_1 fails in a V4 power(off) (its assert handshake times
\* out or its domain release fails), no operation is made on a CORE_2
\* resource in that call: the registers, clocks and domain of CORE_2 are as
\* they were, and the error of CORE_1 is returned.
C16_PowerOffSequentialAbort ==
    (/\ call = "core_power" /\ arg = POWER_OFF /\ IsV4
     /\ \/ Core1Log[2].val # 0
        \/ Len(Core1Log) = 7 /\ Core1Log[7].val < 0) =>
        /\ Core2Log = <<>>
        /\ ret = Core1Log[Len(Core1Log)].val
        /\ ret # 0
        /\ reg[WRAPPER_VCODEC1_MMCC_POWER_CONTROL] = pre.reg[WRAPPER_VCODEC1_MMCC_POWER_CONTROL]
        /\ reg[WRAPPER_VCODEC1_MMCC_POWER_STATUS] = pre.reg[WRAPPER_VCODEC1_MMCC_POWER_STATUS]
        /\ \A c \in Core1Clks : enable_count[c] = pre.enable_count[c]
        /\ usage_count["vcodec1"] = pre.usage_count["vcodec1"]

\* the domain of CORE_1 could not be released while CORE_2 was up
C16_Witness ==
    /\ call = "core_power" /\ arg = POWER_OFF /\ IsV4
    /\ Len(Core1Log) = 7 /\ Core1Log[7].val < 0
    /\ usage_count["vcodec1"] = 1
    /\ enable_count[ClkName("venus", "vcodec1_core")] = 1
    /\ enable_count[ClkName("venus", "vcodec1_bus")] = 1
    /\ enable_count[ClkName("venus", "vcodec0_core")] = 0

\* C17: a power(on) enables the clocks of the shared ClockSet in ascending
\* index order from 0, all of them when none fails; a power(off) disables
\* every clock of the set exactly once in descending index order from
\* clks_num - 1; on V1, where power is enableAll and disableAll alone,
\* nothing else is operated on, power(off) returns Ok and no other clock,
\* no domain and no register changes.
C17_ClockSetOrder ==
    call = "core_power" =>
        LET enables == SelectSeq(SharedLog, LAMBDA e : e.op = "clk_prepare_enable")
        IN  /\ arg = POWER_ON =>
                  /\ Len(enables) <= clks_num
                  /\ \A i \in DOMAIN enables : enables[i].res = SharedClk(i - 1)
                  /\ FailedEnables = {} => /\ Len(enables) = clks_num
                                           /\ SharedLog = enables
            /\ arg = POWER_OFF => SharedLog = DisableAllLog
            /\ \A i \in clks_num..(MaxClks - 1) : enable_count[SharedClk(i)] = 0
            /\ IsV1Power =>
                  /\ log = SharedLog
                  /\ arg = POWER_OFF => ret = 0
                  /\ \A c \in ClockNames \ SharedClks :
                        enable_count[c] = pre.enable_count[c]
                  /\ usage_count = pre.usage_count
                  /\ reg = pre.reg

\* the ClockSet of a V3 device is disabled while its decoder clock is on
C17_Witness ==
    /\ call = "core_power" /\ arg = POWER_OFF /\ IsV1Power
    /\ clks_num = MaxClks
    /\ log = DisableAllLog
    /\ pre.enable_count[SharedClk(0)] = 1
    /\ enable_count[SharedClk(0)] = 0
    /\ enable_count[ClkName("vdec", "core")] = 1

\* C18: a V4 power(off) in which every step succeeds, directly after a V4
\* power(on) that returned Ok, returns Ok and leaves the enable count of
\* every shared clock and of the four per-core clocks, and the usage count
\* of both per-core domains, as they were before the power(on); this holds
\* from every state the device can be in, so for every such cycle.
C18_OnOffBalanced ==
    (/\ call = "core_power" /\ arg = POWER_OFF /\ IsV4
     /\ pre.call = "core_power" /\ pre.arg = POWER_ON /\ pre.ret = 0
     /\ \A j \in DOMAIN log : StepOK(log[j])) =>
        /\ ret = 0
        /\ \A i \in 0..(clks_num - 1) :
              enable_count[SharedClk(i)] = pre.before[SharedClk(i)]
        /\ \A c \in Core0Clks \cup Core1Clks : enable_count[c] = pre.before[c]
        /\ \A d \in {"vcodec0", "vcodec1"} : usage_count[d] = pre.usage_before[d]

\* on, on, off, all Ok: the last pair leaves every count at 1
C18_Witness ==
    /\ call = "core_power" /\ arg = POWER_OFF /\ IsV4 /\ ret = 0
    /\ pre.call = "core_power" /\ pre.arg = POWER_ON /\ pre.ret = 0
    /\ \A j \in DOMAIN log : StepOK(log[j])
    /\ clks_num >= 1
    /\ pre.before[ClkName("venus", "vcodec1_bus")] = 1
    /\ pre.enable_count[ClkName("venus", "vcodec1_bus")] = 2
    /\ enable_count[ClkName("venus", "vcodec1_bus")] = 1
    /\ pre.usage_before["vcodec1"] = 1
    /\ usage_count["vcodec1"] = 1
    /\ enable_count[SharedClk(0)] = 1

\* C19: a V4 getPm detaches no domain and deletes no link, whatever it
\* returns: the domains attached after it are those whose attach succeeded.
\* A putPm detaches, once each, exactly the domains that were attached
\* before it and no other, deletes the link exactly when there was one, and
\* leaves no domain attached and no link; after a getPm that returned Ok
\* these are the three domains and the link.
C19_PutReleasesWhatGetAcquired ==
    /\ (call = "core_get_pm" /\ IsV4) =>
          /\ \A j \in DOMAIN log :
                log[j].op \notin {"dev_pm_domain_detach", "device_link_del"}
          /\ attached = {log[j].res : j \in {k \in DOMAIN log :
                            /\ log[k].op = "dev_pm_domain_attach_by_name"
                            /\ log[k].val = 0}}
    /\ call = "core_put_pm" =>
          LET detached == SelectSeq(log, LAMBDA e : e.op = "dev_pm_domain_detach")
              deleted  == SelectSeq(log, LAMBDA e : e.op = "device_link_del")
          IN  /\ Len(log) = Len(detached) + Len(deleted)
              /\ {detached[j].res : j \in DOMAIN detached} = pre.attached
              /\ Len(detached) = Cardinality(pre.attached)
              /\ Len(deleted) = (IF pre.link THEN 1 ELSE 0)
              /\ attached = {}
              /\ ~link
              /\ pre.link => (pre.attached = PdNames /\ Len(log) = 4)

\* getPm could not attach the vcodec1 domain; putPm detaches the other two
\* and finds no link to delete
C19_Witness ==
    /\ call = "core_put_pm"
    /\ pre.call = "core_get_pm" /\ pre.ret < 0
    /\ pre.attached = {"venus", "vcodec0"}
    /\ Len(log) = 2
    /\ IS_ERR(core.pd_core1)
    /\ attached = {}

\* C20 (as stated): on a V4 device, in every state, a per-core clock is
\* enabled only while every clock of the shared ClockSet is enabled and the
\* domain of its core is acquired, and no per-core clock is enabled once a
\* power(off) has returned.
C20_PerCoreClksAlwaysGuarded ==
    IsV4 =>
        /\ PerCoreClksGuarded
        /\ (call = "core_power" /\ arg = POWER_OFF) =>
              \A c \in PerCoreClks : enable_count[c] = 0

\* C20: on a V4 device, as long as no power(off) has returned before
\* releasing both per-core domains (after an assert-handshake timeout or a
\* failed release of CORE_1), a per-core clock is enabled only while every
\* clock of the shared ClockSet is enabled and the domain of its core is
\* acquired; a power(off) that reached the release of CORE_2 has lowered
\* the enable count of every per-core clock by one, so that none that was
\* enabled once is left enabled; a power(off) that returned earlier has
\* lowered every shared clock and left the per-core clocks of the cores it
\* did not reach as they were.
C20_PerCoreClksGuardedUnlessCutShort ==
    IsV4 =>
        /\ ~cutshort => PerCoreClksGuarded
        /\ (call = "core_power" /\ arg = POWER_OFF) =>
              /\ \A i \in 0..(clks_num - 1) :
                    enable_count[SharedClk(i)] = Dec(pre.enable_count[SharedClk(i)])
              /\ Len(Core2Log) = 7 =>
                    \A c \in PerCoreClks : enable_count[c] = Dec(pre.enable_count[c])
              /\ Len(Core2Log) < 7 => cutshort
              /\ Len(Core2Log) = 0 =>
                    \A c \in Core1Clks : enable_count[c] = pre.enable_count[c]
              /\ Len(Core1Log) < 7 =>
                    \A c \in Core0Clks : enable_count[c] = pre.enable_count[c]

\* after a complete power(off), a power(on) fails at CORE_2: the clocks of
\* CORE_1 are enabled, and so are the ClockSet and the domain of CORE_1
C20_Witness ==
    /\ IsV4 /\ ~cutshort
    /\ call = "core_power" /\ arg = POWER_ON /\ ret < 0
    /\ pre.call = "core_power" /\ pre.arg = POWER_OFF
    /\ clks_num >= 1
    /\ \A c \in Core0Clks : enable_count[c] = 1
    /\ enable_count[SharedClk(0)] = 1
    /\ usage_count["vcodec0"] = 1
    /\ Len(Core2Log) >= 1

====
